---------------------------- MODULE Spec2Model ----------------------------
(***************************************************************************)
(* A model of find-cargo-toml (src/src/lib.rs): the path resolver `find`,  *)
(* the lexical helper `normalize_path`, and the ascending iterator         *)
(* FindIter with its `next` step, over a small filesystem.                 *)
(*                                                                         *)
(* A path is a record [abs, comps]: whether it starts at the root, and     *)
(* its components as written (names, "." and "..").  The filesystem is a   *)
(* tree of nodes, each node the sequence of names from the root; it holds  *)
(* no symbolic links.  std::path and the operating system's path           *)
(* resolution are modelled by what they do: Components drops "." as        *)
(* Path::components does and keeps "..", Parent removes the last           *)
(* component without looking at the filesystem, and Resolve walks the tree *)
(* the way the kernel resolves a path, so ".." there moves to the parent   *)
(* node and a missing or non-directory intermediate fails the lookup.      *)
(***************************************************************************)
EXTENDS Naturals, Sequences, FiniteSets

VARIABLES
    fs,     \* the filesystem: [dirs, files], two sets of nodes
    cwd,    \* the process's current working directory, a node of fs.dirs
    s       \* the searches: SearchIds -> the FindIter and its history

vars == <<fs, cwd, s>>

---------------------------------------------------------------------------
(* Bounds and vocabulary *)

\* longest input path, in components
MaxInputLen == 2

\* next() calls made on a search that is already exhausted
MaxPostCalls == 1

SearchIds == {"s1", "s2"}

DefaultName == "Cargo.toml"

\* a custom manifest name; it is also the name of the node /root/sub, which
\* may be a directory, a regular file or absent
CustomName == "sub"

RootNode == <<>>
RootDirNode == <<"root">>
SubNode == <<"root", "sub">>

\* the result of a failed lookup: no node has an empty name
NoNode == <<"">>

None == <<>>
Some(x) == <<x>>

AbsPath(cs) == [abs |-> TRUE, comps |-> cs]
RelPath(cs) == [abs |-> FALSE, comps |-> cs]

---------------------------------------------------------------------------
(* std::path *)

NotCurDir(c) == c # "."

\* Path::components: "." is dropped everywhere except at the start of a
\* relative path; ".." and names are kept as they are
Components(p) ==
    IF p.comps = <<>> THEN <<>>
    ELSE IF Head(p.comps) = "." /\ p.abs
         THEN SelectSeq(Tail(p.comps), NotCurDir)
         ELSE <<Head(p.comps)>> \o SelectSeq(Tail(p.comps), NotCurDir)

\* fn normalize_path: path.components().collect()
normalize_path(path) == [abs |-> path.abs, comps |-> Components(path)]

\* Path::join: an absolute argument replaces the receiver
Join(p, q) ==
    IF q.abs THEN q ELSE [abs |-> p.abs, comps |-> p.comps \o q.comps]

\* Path::parent: None for the root and for the empty path, else the path
\* without its last component ("..", "." and names alike)
Parent(p) ==
    LET cs == Components(p)
    IN IF cs = <<>> THEN None
       ELSE Some([abs |-> p.abs, comps |-> SubSeq(cs, 1, Len(cs) - 1)])

---------------------------------------------------------------------------
(* The operating system *)

Kind(F, n) ==
    IF n \in F.dirs THEN "dir" ELSE IF n \in F.files THEN "file" ELSE "none"

NodeParent(n) == IF n = RootNode THEN n ELSE SubSeq(n, 1, Len(n) - 1)

\* path resolution from node n: every step needs n to be a directory
RECURSIVE Walk(_, _, _)
Walk(F, n, comps) ==
    IF comps = <<>> THEN n
    ELSE IF n \notin F.dirs THEN NoNode
    ELSE LET c == Head(comps)
         IN Walk(F,
                 IF c = "." THEN n
                 ELSE IF c = ".." THEN NodeParent(n)
                 ELSE Append(n, c),
                 Tail(comps))

\* the node a path denotes (NoNode when the lookup fails); the empty path
\* denotes nothing
Resolve(F, c, p) ==
    IF ~p.abs /\ p.comps = <<>> THEN NoNode
    ELSE LET n == Walk(F, IF p.abs THEN RootNode ELSE c, p.comps)
         IN IF Kind(F, n) = "none" THEN NoNode ELSE n

\* Path::is_file
IsFile(F, c, p) == Kind(F, Resolve(F, c, p)) = "file"


---------------------------------------------------------------------------
(* find and FindIter *)

\* std::env::current_dir(): Ok(the working directory, as an absolute path),
\* or Err (None here) when it cannot be determined
CurrentDirOk == Some(AbsPath(cwd))
CurrentDirErr == None

\* the value of an expression that panicked
Unwound == RelPath(<<"<unwound>">>)

\* (mutant) the supplied name is ignored
FileNameAlwaysDefault(file_name) == DefaultName

\* lib.rs 62: file_name.unwrap_or("Cargo.toml")
FileNameOrDefault(file_name) ==
    IF file_name = None THEN DefaultName ELSE file_name[1]

\* (mutant) current_dir().unwrap(): a failure panics
BaseOrCurrentDirUnwrap(base, curdir) ==
    IF base # None THEN base[1]
    ELSE IF curdir # None THEN curdir[1]
    ELSE Unwound

\* lib.rs 63-65: base, else the working directory, else "."
BaseOrCurrentDir(base, curdir) ==
    IF base # None THEN base[1]
    ELSE IF curdir # None THEN curdir[1]
    ELSE RelPath(<<".">>)

\* (mutant) the input is used as it is, the base never joined
StartOfIgnoresBase(input, base) == input

\* lib.rs 66-70: an absolute input as it is, a relative one joined onto base
StartOf(input, base) ==
    IF input.abs THEN input ELSE Join(base, input)

\* (mutant) the input is used as it is, file or not
StartDirKeepsFile(F, c, start_normalized) == start_normalized

\* (mutant) the parent is taken whether or not the input is a file
StartDirAlwaysParent(F, c, start_normalized) ==
    LET par == Parent(start_normalized)
    IN IF par # None THEN par[1] ELSE start_normalized

\* lib.rs 72-79: a regular file is replaced by its parent directory
StartDir(F, c, start_normalized) ==
    IF IsFile(F, c, start_normalized)
    THEN LET par == Parent(start_normalized)
         IN IF par # None THEN par[1] ELSE start_normalized
    ELSE start_normalized

\* fn find: the FindIter it returns
find(F, c, input, base, file_name, curdir) ==
    LET name == FileNameOrDefault(file_name)
        b == BaseOrCurrentDir(base, curdir)
        start == StartOf(input, b)
        start_normalized == normalize_path(start)
        start_dir == StartDir(F, c, start_normalized)
    IN [current |-> Some(start_dir), file_name |-> name,
        panicked |-> (b = Unwound)]

\* fn find_from_current_dir: find(input, None::<PathBuf>, file_name)
find_from_current_dir(F, c, input, file_name, curdir) ==
    find(F, c, input, None, file_name, curdir)

\* lib.rs 23 and 26: self.current = dir.parent().map(PathBuf::from)
Advance(dir) == Parent(dir)

\* (mutant) an unset current directory is read as the empty path, so an
\* exhausted search looks into the working directory again
RECURSIVE IterNextUnfused(_, _, _, _, _)
IterNextUnfused(F, c, current, file_name, seen) ==
    IF current = None
    THEN [ret |-> IF IsFile(F, c, RelPath(<<file_name>>))
                  THEN Some(RelPath(<<file_name>>)) ELSE None,
          current |-> None, seen |-> seen]
    ELSE CHOOSE r \in
           {LET candidate == Join(dir, RelPath(<<file_name>>))
            IN IF IsFile(F, c, candidate)
               THEN [ret |-> Some(candidate), current |-> Advance(dir),
                     seen |-> Append(sn, dir)]
               ELSE IterNextUnfused(F, c, Advance(dir), file_name, Append(sn, dir))
              : dir \in {current[1]}, sn \in {seen}} : TRUE

\* (mutant) line 23 is missing: a match does not advance the search
RECURSIVE IterNextStaysOnMatch(_, _, _, _, _)
IterNextStaysOnMatch(F, c, current, file_name, seen) ==
    IF current = None
    THEN [ret |-> None, current |-> None, seen |-> seen]
    ELSE CHOOSE r \in
           {LET candidate == Join(dir, RelPath(<<file_name>>))
            IN IF IsFile(F, c, candidate)
               THEN [ret |-> Some(candidate), current |-> Some(dir),
                     seen |-> Append(sn, dir)]
               ELSE IterNextStaysOnMatch(F, c, Advance(dir), file_name,
                                         Append(sn, dir))
              : dir \in {current[1]}, sn \in {seen}} : TRUE

\* FindIter::next, the whole loop: the value returned, the current directory
\* it leaves, and the directories it examined, in order.  `dir` is bound once
\* per turn of the loop, as `while let Some(ref dir) = self.current` binds it.
RECURSIVE IterNext(_, _, _, _, _)
IterNext(F, c, current, file_name, seen) ==
    IF current = None
    THEN [ret |-> None, current |-> None, seen |-> seen]
    ELSE CHOOSE r \in
           {LET candidate == Join(dir, RelPath(<<file_name>>))
            IN IF IsFile(F, c, candidate)
               THEN [ret |-> Some(candidate), current |-> Advance(dir),
                     seen |-> Append(sn, dir)]
               ELSE IterNext(F, c, Advance(dir), file_name, Append(sn, dir))
              : dir \in {current[1]}, sn \in {seen}} : TRUE

---------------------------------------------------------------------------
(* The state machine *)

InputComps == {"root", "sub", "..", "."}

CompSeqs == UNION {[1..n -> InputComps] : n \in 0..MaxInputLen}

Inputs == {[abs |-> a, comps |-> cs] : a \in BOOLEAN, cs \in CompSeqs}

BaseArgs == {None, Some(AbsPath(<<"root">>)), Some(RelPath(<<"root">>))}

NameArgs == {None, Some(CustomName)}

DirSets == {{RootNode}, {RootNode, RootDirNode}, {RootNode, RootDirNode, SubNode}}

Manifests(D) == {Append(d, DefaultName) : d \in D}

\* directory d holds a regular file of that name
Holds(F, d, name) == Append(d, name) \in F.files

\* /root/sub as a regular file, where /root exists and /root/sub is no directory
SubAsFile(D) ==
    IF RootDirNode \in D /\ SubNode \notin D THEN {{}, {SubNode}} ELSE {{}}

FsStates ==
    UNION {{[dirs |-> D, files |-> M \cup X] :
                M \in SUBSET Manifests(D), X \in SubAsFile(D)} : D \in DirSets}

NewSearch ==
    [pc |-> "new", input |-> RelPath(<<>>), base |-> None, name |-> None,
     curdir |-> None, start_dir |-> RelPath(<<>>),
     current |-> None, file_name |-> DefaultName,
     ret |-> None, emitted |-> <<>>, examined |-> <<>>, calls |-> 0, post |-> 0,
     after |-> "none"]

\* the process runs in /root where it exists, else in /
WorkingDir(F) == IF RootDirNode \in F.dirs THEN RootDirNode ELSE RootNode

Init ==
    /\ fs \in FsStates
    /\ cwd = WorkingDir(fs)
    /\ s = [i \in SearchIds |-> NewSearch]

\* let it = find(input, base, file_name)
Find(i, input, base, file_name, curdir) ==
    /\ s[i].pc = "new"
    /\ LET it == find(fs, cwd, input, base, file_name, curdir)
       IN s' = [s EXCEPT ![i] =
                  [NewSearch EXCEPT
                     !.pc = IF it.panicked THEN "panicked" ELSE "active",
                     !.input = input, !.base = base, !.name = file_name,
                     !.curdir = curdir,
                     !.start_dir = it.current[1],
                     !.current = IF it.panicked THEN None ELSE it.current,
                     !.file_name = it.file_name]]
    /\ UNCHANGED <<fs, cwd>>

\* (mutant) `current` is one cell shared by all searches: a next() on one
\* search moves every constructed search
NextCallShared(i) ==
    /\ s[i].pc = "active"
    /\ s[i].current = None => s[i].post < MaxPostCalls
    /\ \E r \in {IterNext(fs, cwd, s[i].current, s[i].file_name, <<>>)} :
         s' = [j \in SearchIds |->
                 IF j = i
                 THEN [s[j] EXCEPT
                         !.current = r.current,
                         !.ret = r.ret,
                         !.emitted = IF r.ret # None THEN Append(@, r.ret[1]) ELSE @,
                         !.examined = @ \o r.seen,
                         !.calls = @ + 1,
                         !.post = IF s[i].current = None THEN @ + 1 ELSE @]
                 ELSE IF s[j].pc = "active"
                      THEN [s[j] EXCEPT !.current = r.current]
                      ELSE s[j]]
    /\ UNCHANGED <<fs, cwd>>

\* it.next()
NextCall(i) ==
    /\ s[i].pc = "active"
    /\ s[i].current = None => s[i].post < MaxPostCalls
    /\ \E r \in {IterNext(fs, cwd, s[i].current, s[i].file_name, <<>>)} :
         s' = [s EXCEPT ![i] =
                  [@ EXCEPT
                     !.current = r.current,
                     !.ret = r.ret,
                     !.emitted = IF r.ret # None THEN Append(@, r.ret[1]) ELSE @,
                     !.examined = @ \o r.seen,
                     !.calls = @ + 1,
                     !.post = IF s[i].current = None THEN @ + 1 ELSE @,
                     !.after = IF @ = "changed" THEN "called" ELSE @]]
    /\ UNCHANGED <<fs, cwd>>

\* what current_dir() would return; it is consulted only when base is
\* absent (lib.rs 65), and its failure is a case only then
CurDirResults(base) ==
    IF base = None THEN {CurrentDirOk, CurrentDirErr} ELSE {CurrentDirOk}

FindAny(i) ==
    \E input \in Inputs, base \in BaseArgs, file_name \in NameArgs :
        \E curdir \in CurDirResults(base) :
            Find(i, input, base, file_name, curdir)

Next ==
    \/ FindAny("s1")
    \/ NextCall("s1")

Spec == Init /\ [][Next]_vars

\* another process creates or removes a manifest in an existing directory;
\* an exhausted search records (in `after`, a history field) that the
\* filesystem changed behind it, and then that next() was called after that
FsChange ==
    /\ \E f \in Manifests(fs.dirs) :
          fs' = [fs EXCEPT !.files = IF f \in @ THEN @ \ {f} ELSE @ \cup {f}]
    /\ s' = [i \in SearchIds |->
               IF s[i].pc = "active" /\ s[i].current = None /\ s[i].after = "none"
               THEN [s[i] EXCEPT !.after = "changed"]
               ELSE s[i]]
    /\ UNCHANGED cwd

\* the filesystem the changing runs start from: / and /root, no manifest
InitFs ==
    /\ fs = [dirs |-> {RootNode, RootDirNode}, files |-> {}]
    /\ cwd = WorkingDir(fs)
    /\ s = [i \in SearchIds |-> NewSearch]

NextFs ==
    \/ FindAny("s1")
    \/ NextCall("s1")
    \/ FsChange

SpecFs == InitFs /\ [][NextFs]_vars

\* the runs of a consumer that keeps calling next(), over the whole tree
InitLive == Init /\ SubNode \in fs.dirs

SpecLive == InitLive /\ [][Next]_vars /\ WF_vars(NextCall("s1"))

\* let it = find_from_current_dir(input, file_name)
FindFromCurrentDir(i, input, file_name, curdir) ==
    /\ s[i].pc = "new"
    /\ LET it == find_from_current_dir(fs, cwd, input, file_name, curdir)
       IN s' = [s EXCEPT ![i] =
                  [NewSearch EXCEPT
                     !.pc = IF it.panicked THEN "panicked" ELSE "active",
                     !.input = input, !.base = None, !.name = file_name,
                     !.curdir = curdir,
                     !.start_dir = it.current[1],
                     !.current = IF it.panicked THEN None ELSE it.current,
                     !.file_name = it.file_name]]
    /\ UNCHANGED <<fs, cwd>>

FindFromCurrentDirAny(i) ==
    \E input \in Inputs, file_name \in NameArgs :
        \E curdir \in CurDirResults(None) :
            FindFromCurrentDir(i, input, file_name, curdir)

NextCwd ==
    \/ FindFromCurrentDirAny("s1")
    \/ NextCall("s1")

\* the searches constructed by find_from_current_dir
SpecCwd == Init /\ [][NextCwd]_vars

\* a second search constructed over the input of the first: the same
\* arguments, in the same process and filesystem
FindAgain(i, j) ==
    /\ s[i].pc = "active"
    /\ Find(j, s[i].input, s[i].base, s[i].name, s[i].curdir)

NextTwo ==
    \/ FindAny("s1")
    \/ FindAgain("s1", "s2")
    \/ NextCall("s1")
    \/ NextCall("s2")

\* the whole tree, with a manifest in /root for both searches to find
InitTwo == InitLive /\ Holds(fs, RootDirNode, DefaultName)

\* two searches by one consumer, their next() calls interleaved at will
SpecTwo == InitTwo /\ [][NextTwo]_vars

---------------------------------------------------------------------------
(* Vocabulary of the properties *)

Active(i) == s[i].pc = "active"

\* the search has returned None with its current directory unset
Exhausted(i) == Active(i) /\ s[i].current = None /\ s[i].calls >= 1 /\ s[i].ret = None

\* the whole sequence a search yields, by calling next() until None
RECURSIVE Drain(_, _, _, _, _)
Drain(F, c, current, file_name, out) ==
    LET r == IterNext(F, c, current, file_name, <<>>)
    IN IF r.ret = None THEN out
       ELSE Drain(F, c, r.current, file_name, Append(out, r.ret[1]))

FindAll(F, c, input, base, file_name, curdir) ==
    LET it == find(F, c, input, base, file_name, curdir)
    IN Drain(F, c, it.current, it.file_name, <<>>)

\* the directory a search starts in, as a node (NoNode when it does not exist)
StartNode(i) == Resolve(fs, cwd, s[i].start_dir)

StartsInDir(i) == Active(i) /\ StartNode(i) \in fs.dirs

\* a directory, its parent, ... up to the root
RECURSIVE NodeChain(_)
NodeChain(n) ==
    IF n = RootNode THEN <<n>> ELSE <<n>> \o NodeChain(NodeParent(n))

\* the manifests of a directory's ancestor chain, nearest first
RECURSIVE ChainMatches(_, _, _)
ChainMatches(F, chain, name) ==
    IF chain = <<>> THEN <<>>
    ELSE (IF Holds(F, Head(chain), name) THEN <<Append(Head(chain), name)>> ELSE <<>>)
         \o ChainMatches(F, Tail(chain), name)

Nodes(paths) == [k \in 1..Len(paths) |-> Resolve(fs, cwd, paths[k])]

\* the examined directories that exist, as nodes, in the order examined
ExistingNodes(paths) ==
    LET Exists(n) == n # NoNode IN SelectSeq(Nodes(paths), Exists)

StrictlyUpward(nodes) ==
    \A j, k \in 1..Len(nodes) : j < k => Len(nodes[j]) > Len(nodes[k])

LastOf(p) == p.comps[Len(p.comps)]

---------------------------------------------------------------------------
(* Properties *)

\* the walk of a search whose starting directory is an absolute path
AbsoluteStart(i) == Active(i) /\ s[i].start_dir.abs

\* C1: when a search that starts in an existing directory S is exhausted, the
\* files it emitted are exactly the manifests of S's ancestor chain (S, its
\* parent, ... the root), each once, nearest first.  Stated for the searches
\* whose starting directory is absolute.
C1_EmitsExactlyAncestorMatches ==
    \A i \in SearchIds :
        (AbsoluteStart(i) /\ StartsInDir(i) /\ Exhausted(i)) =>
            Nodes(s[i].emitted)
                = ChainMatches(fs, NodeChain(StartNode(i)), s[i].file_name)

\* C2: the existing directories a search examines come in strictly
\* decreasing depth (so none is visited twice), and so do the files it emits
\* (so no manifest is emitted twice).  Stated for the searches whose starting
\* directory is absolute.
C2_StrictlyDecreasingDepth ==
    \A i \in SearchIds :
        AbsoluteStart(i) =>
            /\ StrictlyUpward(ExistingNodes(s[i].examined))
            /\ StrictlyUpward(Nodes(s[i].emitted))

\* an input that names an existing subdirectory and then ".."
EndsInSubDotDot(i) ==
    LET cs == s[i].input.comps
        n == Len(cs)
    IN /\ n >= 2
       /\ cs[n] = ".."
       /\ cs[n - 1] \notin {".", ".."}
       /\ Resolve(fs, cwd, normalize_path(StartOf(
              [abs |-> s[i].input.abs, comps |-> SubSeq(cs, 1, n - 1)],
              BaseOrCurrentDir(s[i].base, s[i].curdir)))) \in fs.dirs

\* the input without its last n components
InputWithout(i, n) ==
    [abs |-> s[i].input.abs,
     comps |-> SubSeq(s[i].input.comps, 1, Len(s[i].input.comps) - n)]

\* C3: find(root/sub/..) yields the sequence find(root) yields, where sub is
\* a subdirectory of root.  Stated for the searches whose starting directory
\* is absolute.
C3_DotDotSameAsParent ==
    \A i \in SearchIds :
        (AbsoluteStart(i) /\ Exhausted(i) /\ EndsInSubDotDot(i)) =>
            s[i].emitted
                = FindAll(fs, cwd, InputWithout(i, 2),
                          s[i].base, s[i].name, s[i].curdir)

\* the node the input names, resolved against the base
InputNode(i) ==
    Resolve(fs, cwd, StartOf(s[i].input, BaseOrCurrentDir(s[i].base, s[i].curdir)))

\* the input of the search names an existing regular file
InputIsFile(i) == Active(i) /\ InputNode(i) \in fs.files

\* C4: a search whose input P/f is an existing regular file starts in P, the
\* directory find(P) starts in, and yields the sequence find(P) yields.
C4_FileInputUsesParent ==
    \A i \in SearchIds :
        InputIsFile(i) =>
            /\ Some(s[i].start_dir)
                 = find(fs, cwd, InputWithout(i, 1),
                        s[i].base, s[i].name, s[i].curdir).current
            /\ Exhausted(i) =>
                 s[i].emitted
                   = FindAll(fs, cwd, InputWithout(i, 1),
                             s[i].base, s[i].name, s[i].curdir)

\* C4's case: a file input below a directory that holds the manifest, drained
C4_Witness ==
    /\ InputIsFile("s1")
    /\ s["s1"].name = None
    /\ Exhausted("s1")
    /\ Len(s["s1"].emitted) >= 1
    /\ Len(s["s1"].input.comps) >= 2

\* neither the directory nor any ancestor of it holds the target file
NoMatchAbove(i) ==
    \A k \in 1..Len(NodeChain(StartNode(i))) :
        ~Holds(fs, NodeChain(StartNode(i))[k], s[i].file_name)

C6_FirstMatchInStartDir ==
    \A i \in SearchIds :
        (Active(i) /\ InputNode(i) \in fs.dirs
                   /\ Holds(fs, InputNode(i), s[i].file_name)
                   /\ s[i].calls >= 1) =>
            /\ Len(s[i].emitted) >= 1
            /\ Parent(s[i].emitted[1]) = Some(s[i].start_dir)
            /\ Resolve(fs, cwd, Parent(s[i].emitted[1])[1]) = InputNode(i)
            /\ NodeParent(Resolve(fs, cwd, s[i].emitted[1])) = InputNode(i)

\* C6's case: a relative input that names a directory holding the manifest
C6_Witness ==
    /\ StartsInDir("s1")
    /\ ~s["s1"].input.abs
    /\ StartNode("s1") = RootDirNode
    /\ Holds(fs, RootDirNode, s["s1"].file_name)
    /\ s["s1"].calls = 1
    /\ s["s1"].ret # None

\* the name a search was asked for: the one supplied, else "Cargo.toml"
TargetName(i) == IF s[i].name = None THEN "Cargo.toml" ELSE s[i].name[1]

\* C7: every emitted path ends in the target name and names a regular file of
\* that name; so a directory with "Cargo.toml" and without the custom name
\* gives no match to a search for the custom name.
C7_MatchesCarryTargetName ==
    \A i \in SearchIds :
        Active(i) =>
            \A k \in 1..Len(s[i].emitted) :
                /\ LastOf(s[i].emitted[k]) = TargetName(i)
                /\ Resolve(fs, cwd, s[i].emitted[k]) \in fs.files
                /\ LET n == Resolve(fs, cwd, s[i].emitted[k])
                   IN n[Len(n)] = TargetName(i)

\* C7's case: a drained search for the custom name that examined a directory
\* with "Cargo.toml" and without the custom name, and matched elsewhere
C7_Witness ==
    /\ Exhausted("s1")
    /\ s["s1"].name = Some(CustomName)
    /\ Len(s["s1"].emitted) = 1
    /\ \E k \in 1..Len(s["s1"].examined) :
          LET d == Resolve(fs, cwd, s["s1"].examined[k])
          IN /\ d \in fs.dirs
             /\ Holds(fs, d, DefaultName)
             /\ ~Holds(fs, d, CustomName)

\* C8: once a search has returned None with its current directory unset,
\* every later step leaves it so: next() returns None again and emits
\* nothing, whatever the filesystem holds by then.
C8_ExhaustionPermanent ==
    [][\A i \in SearchIds :
          Exhausted(i) =>
              /\ s'[i].ret = None
              /\ s'[i].current = None
              /\ s'[i].emitted = s[i].emitted]_vars

\* C8's case: next() was called on an exhausted search after the filesystem
\* changed, and a directory the search examined now holds an unemitted match
C8_Witness ==
    /\ Exhausted("s1")
    /\ s["s1"].post >= 1
    /\ s["s1"].after = "called"
    /\ \E k \in 1..Len(s["s1"].examined) :
          LET candidate == Join(s["s1"].examined[k], RelPath(<<s["s1"].file_name>>))
          IN /\ IsFile(fs, cwd, candidate)
             /\ \A j \in 1..Len(s["s1"].emitted) : s["s1"].emitted[j] # candidate

\* Path::ancestors().count() of a path: itself, its parent, ... the last one
AncestorCount(p) == Len(Components(p)) + 1

PathWords == InputComps \cup {DefaultName, CustomName, "root"}

WellFormed(p) ==
    /\ p.abs \in BOOLEAN
    /\ \A k \in 1..Len(p.comps) : p.comps[k] \in PathWords

\* C10: find always returns a search (no call panics, whatever the input,
\* the base, the working directory's availability and the file name), and
\* every next() returns None or a path.
C10_Total ==
    \A i \in SearchIds :
        /\ s[i].pc \in {"new", "active"}
        /\ Active(i) =>
             /\ WellFormed(s[i].start_dir)
             /\ s[i].calls = 0 => s[i].current = Some(s[i].start_dir)
             /\ s[i].current # None =>
                  Len(s[i].current) = 1 /\ WellFormed(s[i].current[1])
             /\ s[i].ret # None =>
                  Len(s[i].ret) = 1 /\ WellFormed(s[i].ret[1])
             /\ s[i].base = None /\ s[i].curdir = None /\ ~s[i].input.abs =>
                  ~s[i].start_dir.abs /\ s[i].start_dir.comps[1] = "."

\* C10's case: no base, no working directory, an input of nested "..",
\* drained
C10_Witness ==
    /\ Exhausted("s1")
    /\ s["s1"].base = None
    /\ s["s1"].curdir = CurrentDirErr
    /\ s["s1"].input = RelPath(<<"..", "..">>)

IsPrefix(a, b) == Len(a) <= Len(b) /\ a = SubSeq(b, 1, Len(a))

\* the sequence a search yields when it is the only one
Alone(i) == FindAll(fs, cwd, s[i].input, s[i].base, s[i].name, s[i].curdir)

\* C11: two searches constructed over the same input do not interfere: under
\* every interleaving of their next() calls each has emitted a prefix of the
\* sequence it yields alone (the whole of it once exhausted), and a next() on
\* one search leaves the other's current directory and file name unchanged.
C11_SearchesIndependent ==
    /\ [](\A i \in SearchIds :
            Active(i) =>
                /\ IsPrefix(s[i].emitted, Alone(i))
                /\ Exhausted(i) => s[i].emitted = Alone(i))
    /\ [][\A i, j \in SearchIds :
            (i # j /\ s'[i].calls # s[i].calls) =>
                /\ s'[j].current = s[j].current
                /\ s'[j].file_name = s[j].file_name]_vars

\* C11's case: two searches over one input at different positions, the first
\* drained after two matches while the second has made one call and is not
C11_Witness ==
    /\ Exhausted("s1")
    /\ Len(s["s1"].emitted) >= 2
    /\ Active("s2")
    /\ s["s2"].input = s["s1"].input
    /\ s["s2"].calls = 1
    /\ Len(s["s2"].emitted) = 1
    /\ s["s2"].current # None

\* the last directory a search examined
LastExamined(i) == s[i].examined[Len(s[i].examined)]

\* C12: the starting directory find computes is an absolute path, whatever
\* the input and the base (a relative base and the fallback base "."
\* included), so the last directory a drained search examined is the root.
C12_StartDirAbsolute ==
    \A i \in SearchIds :
        Active(i) =>
            /\ s[i].start_dir.abs
            /\ (Exhausted(i) /\ s[i].examined # <<>>) =>
                   /\ LastExamined(i).abs
                   /\ Resolve(fs, cwd, LastExamined(i)) = RootNode

\* the working directory or one of its ancestors holds "Cargo.toml"
ManifestAtOrAboveCwd ==
    \E k \in 1..Len(NodeChain(cwd)) : Holds(fs, NodeChain(cwd)[k], DefaultName)

\* C13: a search constructed by find_from_current_dir(input, file_name)
\* yields the sequence find(input, None, file_name) yields; and
\* find_from_current_dir(".", None), run in a directory that holds
\* "Cargo.toml" or has an ancestor that does, yields at least one path.
C13_FromCurrentDirIsFind ==
    \A i \in SearchIds :
        Active(i) =>
            /\ IsPrefix(s[i].emitted, Alone(i))
            /\ Exhausted(i) => s[i].emitted = Alone(i)
            /\ (/\ Exhausted(i)
                /\ s[i].input = RelPath(<<".">>)
                /\ s[i].name = None
                /\ ManifestAtOrAboveCwd) => Len(s[i].emitted) >= 1

\* the base a search resolves its input against
EffectiveBase(i) == BaseOrCurrentDir(s[i].base, s[i].curdir)

\* search i starts where find(input, base, its file name) starts, and once
\* drained has yielded what that call yields
SameAsFind(i, input, base, curdir) ==
    /\ Some(s[i].start_dir)
         = find(fs, cwd, input, base, s[i].name, curdir).current
    /\ Exhausted(i) =>
         s[i].emitted = FindAll(fs, cwd, input, base, s[i].name, curdir)

\* the search was given a base, or its working directory was available
BaseKnown(i) == Active(i) /\ (s[i].base # None \/ s[i].curdir # None)

\* C14: an absolute input ignores the base (every base, absent included,
\* gives the same search); a relative input gives the search that
\* find(base joined with input, any base) gives.  Stated for the searches
\* that were given a base or had a working directory.
C14_BaseResolution ==
    \A i \in SearchIds :
        BaseKnown(i) =>
            \A b2 \in BaseArgs : \A cd \in CurDirResults(b2) :
                IF s[i].input.abs
                THEN SameAsFind(i, s[i].input, b2, cd)
                ELSE SameAsFind(i, Join(EffectiveBase(i), s[i].input), b2, cd)

\* C14 as amended: an absolute input ignores the base; a relative input
\* resolved against an absolute base (the one given, or the working
\* directory when none is given) gives the search that find(base joined with
\* input, any base) gives, and find(".", base) starts at base itself.
C14_BaseResolutionAbsoluteBase ==
    \A i \in SearchIds :
        Active(i) =>
            /\ \A b2 \in BaseArgs : \A cd \in CurDirResults(b2) :
                  IF s[i].input.abs
                  THEN SameAsFind(i, s[i].input, b2, cd)
                  ELSE EffectiveBase(i).abs =>
                         SameAsFind(i, Join(EffectiveBase(i), s[i].input), b2, cd)
            /\ (/\ s[i].input = RelPath(<<".">>)
                /\ EffectiveBase(i).abs
                /\ ~IsFile(fs, cwd, EffectiveBase(i))) =>
                   s[i].start_dir = EffectiveBase(i)

\* C14's case: a relative input under the given absolute base /root, drained
\* after a match
C14_Witness ==
    /\ Exhausted("s1")
    /\ s["s1"].input = RelPath(<<"sub">>)
    /\ s["s1"].base = Some(AbsPath(<<"root">>))
    /\ Len(s["s1"].emitted) >= 1

\* a path without "." and ".." components
Canonical(p) == \A k \in 1..Len(p.comps) : p.comps[k] \notin {".", ".."}

\* C15: the starting directory holds no "." and no ".." component, and
\* neither does the current directory of a search in any reachable state.
\* Stated for the searches whose starting directory is absolute.
C15_NoDotComponents ==
    \A i \in SearchIds :
        AbsoluteStart(i) =>
            /\ Canonical(s[i].start_dir)
            /\ s[i].current # None => Canonical(s[i].current[1])

\* the nearest directory that exists among a path, its parent, ... (as
\* Path::ancestors lists them); the root exists
RECURSIVE NearestExisting(_)
NearestExisting(p) ==
    IF Resolve(fs, cwd, p) \in fs.dirs \/ Parent(p) = None
    THEN Resolve(fs, cwd, p)
    ELSE NearestExisting(Parent(p)[1])

\* C16: a search whose starting directory does not exist is a search all the
\* same, and once drained it has emitted exactly the manifests of the
\* ancestor chain of the nearest ancestor that exists (so nothing for the
\* levels that do not).  Stated for the searches whose starting directory is
\* absolute.
C16_NonexistentStartWalksUp ==
    \A i \in SearchIds :
        (AbsoluteStart(i) /\ StartNode(i) = NoNode /\ Exhausted(i)) =>
            Nodes(s[i].emitted)
                = ChainMatches(fs, NodeChain(NearestExisting(s[i].start_dir)),
                               s[i].file_name)

\* directory a lies strictly above directory b
ProperAncestor(a, b) == Len(a) < Len(b) /\ a = SubSeq(b, 1, Len(a))

\* the directory that holds a file a search returned
HoldingDir(path) == NodeParent(Resolve(fs, cwd, path))

\* C17: next() leaves the file name of its search as find set it, and
\* either unsets the current directory or replaces the directory it examined
\* last with a directory strictly above it; after a match in directory D the
\* current directory is D's parent, unset when D is the root, never D or a
\* directory below D.  Stated for the searches whose starting directory is
\* absolute.
C17_AdvanceFrame ==
    \A i \in SearchIds :
        AbsoluteStart(i) =>
            /\ s[i].file_name = TargetName(i)
            /\ (/\ s[i].current # None
                /\ s[i].examined # <<>>
                /\ Resolve(fs, cwd, LastExamined(i)) \in fs.dirs) =>
                   ProperAncestor(Resolve(fs, cwd, s[i].current[1]),
                                  Resolve(fs, cwd, LastExamined(i)))
            /\ s[i].ret # None =>
                   IF HoldingDir(s[i].ret[1]) = RootNode
                   THEN s[i].current = None
                   ELSE /\ s[i].current # None
                        /\ Resolve(fs, cwd, s[i].current[1])
                             = NodeParent(HoldingDir(s[i].ret[1]))

\* C18: constructing a search examines no directory, and when next() returns
\* a match in directory D the search has examined no directory above D (so a
\* consumer that stops there has caused no lookup above D).  Stated for the
\* searches whose starting directory is absolute.
C18_Lazy ==
    \A i \in SearchIds :
        AbsoluteStart(i) =>
            /\ s[i].calls = 0 => s[i].examined = <<>>
            /\ s[i].ret # None =>
                   \A k \in 1..Len(s[i].examined) :
                       ~ProperAncestor(Resolve(fs, cwd, s[i].examined[k]),
                                       HoldingDir(s[i].ret[1]))

=============================================================================
